---- MODULE Spec2Model ----
(***************************************************************************)
(* Model of src/app.py: the merge step (process_files) and the posting run *)
(* (process_odoo_integration, as called from main).                        *)
(*                                                                         *)
(* Representation.  Vendor names are integers that stand for the name's    *)
(* rank in the collation order of the names.  Product names are sequences  *)
(* of character codes, 0 being the blank.  A missing cell (pandas NaN) is  *)
(* the value NaN.  Money and percentages are integers; a posted price is   *)
(* kept in hundredths (see final_price).                                   *)
(***************************************************************************)
EXTENDS Integers, Sequences, FiniteSets, TLC

\* ------------------------------------------------------------------ bounds
MaxRows == 2
MaxAggRows == 2
MaxSourceRows == 2
MaxClicks == 5

\* the missing cell: NaN in a numeric column, NaNText in a text column
NaN == -1
NaNText == <<NaN>>
\* a cell that pd.to_numeric cannot parse
Unparseable == -2

\* ------------------------------------------------------- input value sets
VendorNames == {1, 2}
ProductNames == {<<1>>, <<2, 0>>}
CostPrices == {100}
Discounts == {NaN, 0, 10}
Quantities == {1}
LotNumbers == {7}

\* rows of the uploaded file, read by pd.read_excel
FileRows ==
    [vendor_name : VendorNames, product_name : ProductNames,
     unit_price : CostPrices, quantity : Quantities,
     label : LotNumbers, discount : Discounts]
    \cup [vendor_name : {1}, product_name : {<<1>>}, unit_price : {200},
          quantity : {2}, label : {8}, discount : {0, 10}]

RECURSIVE SeqsUpTo(_, _)
SeqsUpTo(S, n) ==
    IF n = 0 THEN {<<>>}
    ELSE LET shorter == SeqsUpTo(S, n - 1)
         IN  shorter \cup {Append(s, x) : s \in {t \in shorter : Len(t) = n - 1}, x \in S}

\* ----------------------------------------------------------- pure helpers
required_columns_no_discount ==
    <<"vendor_name", "product_name", "unit_price", "quantity", "label">>

required_columns ==
    <<"vendor_name", "product_name", "unit_price", "quantity", "label", "discount">>

\* index of the first required column that the file lacks, 0 when none
RECURSIVE FirstMissingFrom(_, _)
FirstMissingFrom(columns, i) ==
    IF i > Len(required_columns) THEN 0
    ELSE IF required_columns[i] \notin columns THEN i
    ELSE FirstMissingFrom(columns, i + 1)

FirstMissing(columns) == FirstMissingFrom(columns, 1)

\* str.strip(): drops leading and trailing blanks
RECURSIVE LStrip(_)
LStrip(s) == IF s # <<>> /\ Head(s) = 0 THEN LStrip(Tail(s)) ELSE s

RECURSIVE RStrip(_)
RStrip(s) ==
    IF s # <<>> /\ s[Len(s)] = 0 THEN RStrip(SubSeq(s, 1, Len(s) - 1)) ELSE s

Strip(s) == RStrip(LStrip(s))

\* lexicographic order of strings (a proper prefix sorts first)
RECURSIVE SeqLess(_, _)
SeqLess(a, b) ==
    IF b = <<>> THEN FALSE
    ELSE IF a = <<>> THEN TRUE
    ELSE IF Head(a) # Head(b) THEN Head(a) < Head(b)
    ELSE SeqLess(Tail(a), Tail(b))

\* the grouping key of a row: (Vendor, Product, CostPrice, Discount)
KeyOf(r) == <<r.vendor_name, r.product_name, r.unit_price, r.discount>>

\* groupby drops a row whose key has a missing cell (dropna defaults to True)
KeyComplete(k) == k[1] # NaN /\ k[2] # NaNText /\ k[3] # NaN /\ k[4] # NaN

\* groupby sorts the groups by key (sort defaults to True)
KeyLessFlipped(a, b) ==
    \/ a[1] > b[1]
    \/ a[1] = b[1] /\ SeqLess(b[2], a[2])
    \/ a[1] = b[1] /\ a[2] = b[2] /\ a[3] > b[3]
    \/ a[1] = b[1] /\ a[2] = b[2] /\ a[3] = b[3] /\ a[4] > b[4]

KeyLess(a, b) ==
    \/ a[1] < b[1]
    \/ a[1] = b[1] /\ SeqLess(a[2], b[2])
    \/ a[1] = b[1] /\ a[2] = b[2] /\ a[3] < b[3]
    \/ a[1] = b[1] /\ a[2] = b[2] /\ a[3] = b[3] /\ a[4] < b[4]

RECURSIVE SumQuantity(_, _)
SumQuantity(rows, k) ==
    IF rows = <<>> THEN 0
    ELSE (IF KeyOf(Head(rows)) = k THEN Head(rows).quantity ELSE 0)
         + SumQuantity(Tail(rows), k)

\* ", ".join(str(v) for v in x if pd.notna(v)): the labels joined, as the
\* sequence of the joined parts
RECURSIVE JoinLabels(_, _)
JoinLabels(rows, k) ==
    IF rows = <<>> THEN <<>>
    ELSE (IF KeyOf(Head(rows)) = k /\ Head(rows).label # NaN
          THEN <<Head(rows).label>> ELSE <<>>)
         \o JoinLabels(Tail(rows), k)

GroupKeys(rows) ==
    {k \in {KeyOf(rows[i]) : i \in 1..Len(rows)} : KeyComplete(k)}

\* df.groupby([...], as_index=False).agg({...})
GroupRows(rows) ==
    LET keys == GroupKeys(rows)
        rank(k) == Cardinality({j \in keys : KeyLess(j, k)}) + 1
        keyAt(i) == CHOOSE k \in keys : rank(k) = i
    IN  [i \in 1..Cardinality(keys) |->
            LET k == keyAt(i)
            IN  [Vendor |-> k[1], Product |-> k[2], CostPrice |-> k[3],
                 Discount |-> k[4], Quantity |-> SumQuantity(rows, k),
                 LotNumber |-> JoinLabels(rows, k)]]

\* df_grouped.groupby("Vendor"): the distinct vendors, sorted (sort=True)
VendorsOf(grouped) ==
    LET names == {grouped[i].Vendor : i \in 1..Len(grouped)}
        rank(v) == Cardinality({w \in names : w < v}) + 1
    IN  [i \in 1..Cardinality(names) |-> CHOOSE v \in names : rank(v) = i]

\* the rows of one vendor's group
GroupOf(grouped, v) == SelectSeq(grouped, LAMBDA g : g.Vendor = v)

\* price after discount, in hundredths of the price unit
final_price_no_discount(price, discount) == price * 100

final_price(price, discount) ==
    IF discount > 0 THEN price * (100 - discount) ELSE price * 100

\* one entry of line_vals
LineValDiscountInPriceOnly(g, product_id) ==
    [product_id |-> product_id,
     quantity |-> g.Quantity,
     price_unit |-> final_price(g.CostPrice, g.Discount),
     discount |-> 0,
     name |-> <<Strip(g.Product), g.LotNumber, g.Discount>>]

LineVal(g, product_id) ==
    [product_id |-> product_id,
     quantity |-> g.Quantity,
     price_unit |-> final_price(g.CostPrice, g.Discount),
     discount |-> g.Discount,
     name |-> <<Strip(g.Product), g.LotNumber, g.Discount>>]

\* ------------------------------------------------------------------ state
VARIABLES
    file,        \* the uploaded file: its columns and its rows
    pc,          \* position of the posting run
    uid,         \* what authenticate returned (0 is False)
    df_grouped,  \* the aggregated table
    vendors,     \* the vendor groups still to iterate, in iteration order
    vi,          \* index of the current vendor group
    vendor_id,   \* id of the current vendor
    li,          \* index of the current row of the current vendor group
    line_vals,   \* resolved lines of the current vendor
    results,     \* the run's result list
    calls,       \* every remote call issued, in order
    remoteDocs,  \* the account.move records held by the remote service
    shown,       \* result messages main displays
    inventory_file,  \* the inventory report given to process_files
    odoo_file,       \* the PO results given to process_files
    final_df,        \* the table process_files returns
    odoo_connected,  \* st.session_state.odoo_connected
    odoo_config,     \* st.session_state.odoo_config
    uploaded_file,   \* whether the integration tab holds an uploaded file
    clicks,          \* the button clicks of the session, in order
    error        \* the error main displays, NoError when none

vars == <<odoo_connected, odoo_config, uploaded_file, clicks, inventory_file, odoo_file, final_df, file, pc, uid, df_grouped, vendors, vi, vendor_id, li, line_vals,
          results, calls, remoteDocs, shown, error>>

AllColumns == {required_columns[i] : i \in 1..Len(required_columns)}

Files ==
    {[columns |-> AllColumns, rows |-> rs] : rs \in SeqsUpTo(FileRows, MaxRows)}
    \cup {[columns |-> cs, rows |-> rs] :
            cs \in (SUBSET AllColumns) \ {AllColumns}, rs \in SeqsUpTo(FileRows, 1)}

\* get_odoo_config(): what the environment holds at a click
Config(url, db, username, password, company) ==
    [url |-> url, db |-> db, username |-> username, password |-> password,
     hq_company_name |-> company]

EnvConfigs ==
    {Config("http://a/", "db", "user", "pw1", "HQ"),
     Config("http://a/", "db", "user", "pw2", "HQ"),
     Config("http://a/", "db", "user", "pw1", "")}

\* all(config.values())
Complete(config) ==
    /\ config.url # ""
    /\ config.db # ""
    /\ config.username # ""
    /\ config.password # ""
    /\ config.hq_company_name # ""

\* st.session_state holds no odoo_config yet
NoConfig == Config("", "", "", "", "")

\* no file given to process_files (None)
NoFile == [supplied |-> FALSE, readable |-> FALSE, rows |-> <<>>]

NoError == [kind |-> "none", column |-> ""]
MissingColumn(col) == [kind |-> "missing_column", column |-> col]
Fatal == [kind |-> "fatal", column |-> ""]

Message(kind, name, id) == [kind |-> kind, name |-> name, id |-> id]

Call(op, vendor, gi, arg, res, id, lines) ==
    [op |-> op, vendor |-> vendor, gi |-> gi, arg |-> arg, res |-> res,
     id |-> id, lines |-> lines]

\* ids the remote service answers with
PartnerId(name) == 100 + name
ProductId(name) == 200 + name[1]

Init ==
    /\ file \in Files
    /\ pc = "read"
    /\ uid = 0
    /\ df_grouped = <<>>
    /\ vendors = <<>>
    /\ vi = 0
    /\ vendor_id = 0
    /\ li = 0
    /\ line_vals = <<>>
    /\ results = <<>>
    /\ calls = <<>>
    /\ remoteDocs = <<>>
    /\ shown = <<>>
    /\ error = NoError
    /\ inventory_file = NoFile
    /\ odoo_file = NoFile
    /\ final_df = <<>>
    /\ odoo_connected = TRUE
    /\ odoo_config = Config("http://a/", "db", "user", "pw1", "HQ")
    /\ uploaded_file = TRUE
    /\ clicks = <<>>

\* except Exception in process_odoo_integration, then in main: the result
\* list is lost and one error is displayed
RaisedShowingPartial(what) ==
    /\ pc' = "failed"
    /\ error' = what
    /\ shown' = results

Raised(what) ==
    /\ pc' = "failed"
    /\ error' = what
    /\ shown' = <<>>

\* the position after a vendor's iteration ends
NextVendorBreak(i) == Len(vendors) + 1

NextVendor(i) == i + 1

\* the position after a line's iteration ends
NextLineBreak(i) == Len(GroupOf(df_grouped, vendors[vi])) + 1

NextLine(i) == i + 1

\* "if not line_vals" decides between the skip message and the create call
HasLinesAlways(lv) == TRUE

HasLines(lv) == lv # <<>>

\* read the file and check the required columns
ValidateColumns ==
    /\ pc = "read"
    /\ LET m == FirstMissing(file.columns)
       IN  IF m # 0
           THEN /\ Raised(MissingColumn(required_columns[m]))
                /\ UNCHANGED <<odoo_connected, odoo_config, uploaded_file, clicks,
                   inventory_file, odoo_file, final_df, file, uid, df_grouped, vendors, vi, vendor_id, li,
                               line_vals, results, calls, remoteDocs>>
           ELSE /\ pc' = "auth"
                /\ UNCHANGED <<odoo_connected, odoo_config, uploaded_file, clicks,
                   inventory_file, odoo_file, final_df, file, uid, df_grouped, vendors, vi, vendor_id, li,
                               line_vals, results, calls, remoteDocs, shown, error>>

\* common.authenticate(...): a user id, False, or an exception
Authenticate ==
    /\ pc = "auth"
    /\ \E res \in {"uid", "false", "raise"} :
        /\ calls' = Append(calls, Call("authenticate", 0, 0, <<>>, res,
                                       IF res = "uid" THEN 2 ELSE 0, <<>>))
        /\ IF res = "raise"
           THEN /\ Raised(Fatal)
                /\ UNCHANGED uid
           ELSE /\ uid' = (IF res = "uid" THEN 2 ELSE 0)
                /\ pc' = "group"
                /\ UNCHANGED <<shown, error>>
    /\ UNCHANGED <<odoo_connected, odoo_config, uploaded_file, clicks,
                   inventory_file, odoo_file, final_df, file, df_grouped, vendors, vi, vendor_id, li, line_vals,
                   results, remoteDocs>>

\* the groupby/agg, results = [], and the start of the vendor loop
GroupByKey ==
    /\ pc = "group"
    /\ df_grouped' = GroupRows(file.rows)
    /\ vendors' = VendorsOf(df_grouped')
    /\ vi' = 1
    /\ results' = <<>>
    /\ pc' = "vendor"
    /\ UNCHANGED <<odoo_connected, odoo_config, uploaded_file, clicks,
                   inventory_file, odoo_file, final_df, file, uid, vendor_id, li, line_vals, calls, remoteDocs, shown, error>>

\* res.partner search for the current vendor
FetchVendor ==
    /\ pc = "vendor"
    /\ vi <= Len(vendors)
    /\ LET v == vendors[vi]
       IN  \E res \in {"found", "none", "raise"} :
            /\ calls' = Append(calls, Call("search_partner", v, 0, <<v>>, res,
                                   IF res = "found" THEN PartnerId(v) ELSE 0, <<>>))
            /\ CASE res = "raise" ->
                      /\ Raised(Fatal)
                      /\ UNCHANGED <<vi, vendor_id, li, line_vals, results>>
                 [] res = "none" ->
                      /\ results' = Append(results, Message("vendor_not_found", <<v>>, 0))
                      /\ vi' = NextVendor(vi)
                      /\ UNCHANGED <<pc, vendor_id, li, line_vals, shown, error>>
                 [] res = "found" ->
                      /\ vendor_id' = PartnerId(v)
                      /\ line_vals' = <<>>
                      /\ li' = 1
                      /\ pc' = "line"
                      /\ UNCHANGED <<vi, results, shown, error>>
    /\ UNCHANGED <<odoo_connected, odoo_config, uploaded_file, clicks,
                   inventory_file, odoo_file, final_df, file, uid, df_grouped, vendors, remoteDocs>>

\* product.product search for the current row of the vendor's group
FetchProduct ==
    /\ pc = "line"
    /\ LET group == GroupOf(df_grouped, vendors[vi])
       IN  /\ li <= Len(group)
           /\ LET product_name == Strip(group[li].Product)
              IN  \E res \in {"found", "none", "raise"} :
                   /\ calls' = Append(calls,
                          Call("search_product", vendors[vi], li, product_name, res,
                               IF res = "found" THEN ProductId(product_name) ELSE 0, <<>>))
                   /\ CASE res = "raise" ->
                             /\ Raised(Fatal)
                             /\ UNCHANGED <<li, line_vals, results>>
                        [] res = "none" ->
                             /\ results' = Append(results,
                                    Message("product_not_found", product_name, 0))
                             /\ li' = NextLine(li)
                             /\ UNCHANGED <<pc, line_vals, shown, error>>
                        [] res = "found" ->
                             /\ line_vals' = Append(line_vals,
                                    LineVal(group[li], ProductId(product_name)))
                             /\ li' = NextLine(li)
                             /\ UNCHANGED <<pc, results, shown, error>>
    /\ UNCHANGED <<odoo_connected, odoo_config, uploaded_file, clicks,
                   inventory_file, odoo_file, final_df, file, uid, df_grouped, vendors, vi, vendor_id, remoteDocs>>

\* "if not line_vals": the vendor-level skip
NoValidLines ==
    /\ pc = "line"
    /\ li > Len(GroupOf(df_grouped, vendors[vi]))
    /\ ~HasLines(line_vals)
    /\ results' = Append(results, Message("no_valid_lines", <<vendors[vi]>>, 0))
    /\ vi' = NextVendor(vi)
    /\ pc' = "vendor"
    /\ UNCHANGED <<odoo_connected, odoo_config, uploaded_file, clicks,
                   inventory_file, odoo_file, final_df, file, uid, df_grouped, vendors, vendor_id, li, line_vals, calls,
                   remoteDocs, shown, error>>

Move(lines) ==
    [move_type |-> "in_refund", partner_id |-> vendor_id, ref |-> "Damage",
     invoice_line_ids |-> lines]

\* account.move create for the current vendor.  When the call raises, the
\* service may or may not have stored the record.
CreateCreditNote ==
    /\ pc = "line"
    /\ li > Len(GroupOf(df_grouped, vendors[vi]))
    /\ HasLines(line_vals)
    /\ \E res \in {"created", "raise"}, stored \in BOOLEAN :
        /\ res = "created" => stored
        /\ LET credit_note_id == Len(remoteDocs) + 1
           IN  /\ calls' = Append(calls,
                      Call("create", vendors[vi], 0, <<vendor_id>>, res,
                           IF res = "created" THEN credit_note_id ELSE 0, line_vals))
               /\ remoteDocs' = IF stored THEN Append(remoteDocs, Move(line_vals))
                                ELSE remoteDocs
               /\ IF res = "raise"
                  THEN /\ Raised(Fatal)
                       /\ UNCHANGED <<vi, results>>
                  ELSE /\ results' = Append(results,
                              Message("created", <<vendors[vi]>>, credit_note_id))
                       /\ vi' = NextVendor(vi)
                       /\ pc' = "vendor"
                       /\ UNCHANGED <<shown, error>>
    /\ UNCHANGED <<odoo_connected, odoo_config, uploaded_file, clicks,
                   inventory_file, odoo_file, final_df, file, uid, df_grouped, vendors, vendor_id, li, line_vals>>

\* return results; main displays them
ReturnResults ==
    /\ pc = "vendor"
    /\ vi > Len(vendors)
    /\ shown' = results
    /\ pc' = "done"
    /\ UNCHANGED <<odoo_connected, odoo_config, uploaded_file, clicks,
                   inventory_file, odoo_file, final_df, file, uid, df_grouped, vendors, vi, vendor_id, li, line_vals,
                   results, calls, remoteDocs, error>>

Next ==
    \/ ValidateColumns
    \/ Authenticate
    \/ GroupByKey
    \/ FetchVendor
    \/ FetchProduct
    \/ NoValidLines
    \/ CreateCreditNote
    \/ ReturnResults

Spec == Init /\ [][Next]_vars

\* ------------------------------------------------------- reading the log
Map(f(_), seq) == [i \in 1..Len(seq) |-> f(seq[i])]

CallsFor(op, v) == SelectSeq(calls, LAMBDA c : c.op = op /\ c.vendor = v)

MessagesOf(msgs, kind) == SelectSeq(msgs, LAMBDA m : m.kind = kind)

MessagesFor(msgs, kind, v) ==
    SelectSeq(msgs, LAMBDA m : m.kind = kind /\ m.name = <<v>>)

\* the vendors of the aggregated groups
GroupVendors == {df_grouped[i].Vendor : i \in 1..Len(df_grouped)}

VendorFound(v) == \E i \in 1..Len(calls) :
    calls[i].op = "search_partner" /\ calls[i].vendor = v /\ calls[i].res = "found"

VendorAbsent(v) == \E i \in 1..Len(calls) :
    calls[i].op = "search_partner" /\ calls[i].vendor = v /\ calls[i].res = "none"

\* the product lookups of vendor v that found a product
ResolvedCalls(v) ==
    SelectSeq(calls, LAMBDA c : c.op = "search_product" /\ c.vendor = v /\ c.res = "found")

\* what the claims expect of the line posted for group g with product id
ClaimedPrice(g) ==
    IF g.Discount > 0 THEN g.CostPrice * (100 - g.Discount) ELSE g.CostPrice * 100

ClaimedLine(g, id) ==
    [product_id |-> id, quantity |-> g.Quantity, price_unit |-> ClaimedPrice(g),
     discount |-> g.Discount, name |-> <<Strip(g.Product), g.LotNumber, g.Discount>>]

\* the lines of vendor v that resolved, in lookup order
ResolvedLines(v) ==
    LET group == GroupOf(df_grouped, v)
        line(c) == ClaimedLine(group[c.gi], c.id)
    IN  Map(line, ResolvedCalls(v))

\* every row of a found vendor's group is looked up exactly once
EveryLineLookedUp(v) ==
    \A gi \in 1..Len(GroupOf(df_grouped, v)) :
        Cardinality({i \in 1..Len(calls) :
            calls[i].op = "search_product" /\ calls[i].vendor = v /\ calls[i].gi = gi}) = 1

\* C1: in a run that returns, every found vendor with a resolved line gets
\* exactly one create call holding all and only its resolved lines and one
\* success message with the returned id; a found vendor with no resolved line
\* gets one vendor-level skip message and no create call; in every state no
\* vendor has more than one create call.
C1_OneDocumentPerVendor ==
    /\ \A v \in VendorNames : Len(CallsFor("create", v)) <= 1
    /\ pc = "done" =>
        \A v \in GroupVendors :
            VendorFound(v) =>
                /\ EveryLineLookedUp(v)
                /\ IF ResolvedLines(v) # <<>>
                   THEN /\ Len(CallsFor("create", v)) = 1
                        /\ CallsFor("create", v)[1].lines = ResolvedLines(v)
                        /\ CallsFor("create", v)[1].arg = <<PartnerId(v)>>
                        /\ MessagesFor(shown, "created", v)
                             = <<Message("created", <<v>>, CallsFor("create", v)[1].id)>>
                        /\ MessagesFor(shown, "no_valid_lines", v) = <<>>
                   ELSE /\ CallsFor("create", v) = <<>>
                        /\ Len(MessagesFor(shown, "no_valid_lines", v)) = 1
                        /\ MessagesFor(shown, "created", v) = <<>>

C1_Witness ==
    /\ pc = "done"
    /\ \E v, w \in GroupVendors :
        /\ VendorFound(v) /\ Len(CallsFor("create", v)) = 1
        /\ VendorFound(w) /\ ResolvedLines(w) = <<>>
        /\ Len(MessagesFor(shown, "no_valid_lines", w)) = 1

\* C2: a vendor whose res.partner lookup returns nothing gets exactly one
\* skip message, no product lookup and no create call, and the run goes on:
\* in a run that returns, every vendor of the groups is looked up exactly
\* once and every found vendor with resolved lines has its document.
C2_AbsentVendorSkipped ==
    /\ \A v \in VendorNames :
        VendorAbsent(v) =>
            /\ CallsFor("search_product", v) = <<>>
            /\ CallsFor("create", v) = <<>>
            /\ pc # "failed" => Len(MessagesFor(results, "vendor_not_found", v)) = 1
    /\ pc = "done" =>
        /\ \A v \in GroupVendors : Len(CallsFor("search_partner", v)) = 1
        /\ \A v \in GroupVendors :
            VendorAbsent(v) => Len(MessagesFor(shown, "vendor_not_found", v)) = 1
        /\ \A v \in GroupVendors :
            VendorFound(v) /\ ResolvedLines(v) # <<>> =>
                Len(CallsFor("create", v)) = 1

C2_Witness ==
    /\ pc = "done"
    /\ \E v, w \in GroupVendors :
        /\ v < w
        /\ VendorAbsent(v)
        /\ Len(MessagesFor(shown, "vendor_not_found", v)) = 1
        /\ Len(CallsFor("create", w)) = 1

\* the product lookups that found nothing, in call order
AbsentProductCalls ==
    SelectSeq(calls, LAMBDA c : c.op = "search_product" /\ c.res = "none")

AbsentProductMessage(c) == Message("product_not_found", c.arg, 0)

\* C3: every line of a found vendor whose product lookup returns nothing
\* gets exactly one per-line failure message and only that line is left out:
\* every line of the vendor is looked up once and the resolved ones are all
\* in the vendor's single create call.
C3_AbsentProductSkipsLine ==
    /\ pc # "failed" =>
        MessagesOf(results, "product_not_found") = Map(AbsentProductMessage, AbsentProductCalls)
    /\ pc = "done" =>
        /\ MessagesOf(shown, "product_not_found") = Map(AbsentProductMessage, AbsentProductCalls)
        /\ \A v \in GroupVendors :
            VendorFound(v) =>
                /\ EveryLineLookedUp(v)
                /\ ResolvedLines(v) # <<>> =>
                    /\ Len(CallsFor("create", v)) = 1
                    /\ CallsFor("create", v)[1].lines = ResolvedLines(v)

C3_Witness ==
    /\ pc = "done"
    /\ \E v \in GroupVendors :
        /\ Len(CallsFor("search_product", v)) = 2
        /\ CallsFor("search_product", v)[1].res = "none"
        /\ CallsFor("search_product", v)[2].res = "found"
        /\ Len(CallsFor("create", v)[1].lines) = 1
        /\ Len(MessagesOf(shown, "product_not_found")) = 1

\* the create calls that returned an id, in call order
CreatedCalls == SelectSeq(calls, LAMBDA c : c.op = "create" /\ c.res = "created")

\* C4: when a remote call raises, the run ends with one fatal error and no
\* result list: no message of the run is displayed; the records created by
\* the run's earlier create calls are still held by the remote service.
C4_RaiseIsFatalNoRollback ==
    /\ \A i \in 1..Len(calls) :
        calls[i].res = "raise" =>
            /\ i = Len(calls)
            /\ pc = "failed"
            /\ error = Fatal
            /\ shown = <<>>
    /\ \A j \in 1..Len(CreatedCalls) :
        /\ CreatedCalls[j].id \in 1..Len(remoteDocs)
        /\ remoteDocs[CreatedCalls[j].id].invoice_line_ids = CreatedCalls[j].lines
        /\ remoteDocs[CreatedCalls[j].id].partner_id = CreatedCalls[j].arg[1]

C4_Witness ==
    /\ pc = "failed"
    /\ error = Fatal
    /\ Len(CreatedCalls) = 1
    /\ Len(remoteDocs) = 1
    /\ Len(results) >= 1
    /\ shown = <<>>

\* C5: a run authenticates once, before any search or create call, and
\* issues search and create calls only after authenticate returned a user
\* id: a rejected authentication aborts the run with a fatal error and no
\* search or create call.
C5_NoCallAfterRejectedAuth ==
    /\ Len(SelectSeq(calls, LAMBDA c : c.op = "authenticate")) <= 1
    /\ calls # <<>> => calls[1].op = "authenticate"
    /\ \A i \in 1..Len(calls) :
        calls[i].op # "authenticate" => calls[1].res = "uid"
    /\ (calls # <<>> /\ calls[1].res = "false") => pc \notin {"done"}

\* the input rows whose four key cells are all present
CompleteRows == SelectSeq(file.rows, LAMBDA r :
    r.vendor_name # NaN /\ r.product_name # NaNText /\ r.unit_price # NaN /\ r.discount # NaN)

\* the values f(r) of the rows, each at its first appearance
RECURSIVE FirstSeen(_, _, _)
FirstSeen(f(_), rows, seen) ==
    IF rows = <<>> THEN <<>>
    ELSE IF f(Head(rows)) \in seen THEN FirstSeen(f, Tail(rows), seen)
    ELSE <<f(Head(rows))>> \o FirstSeen(f, Tail(rows), seen \cup {f(Head(rows))})

VendorOfRow(r) == r.vendor_name
LineKeyOfRow(r) == <<r.product_name, r.unit_price, r.discount>>
LineKeyOfGroup(g) == <<g.Product, g.CostPrice, g.Discount>>
VendorOfCall(c) == c.vendor

PartnerCalls == SelectSeq(calls, LAMBDA c : c.op = "search_partner")
RemoteCalls == SelectSeq(calls, LAMBDA c : c.op # "authenticate")

\* all calls of one vendor come before the first call of the next one looked up
VendorCallsContiguous ==
    \A i, j \in 1..Len(RemoteCalls) :
        (i < j /\ RemoteCalls[i].vendor # RemoteCalls[j].vendor) =>
            \A k \in j..Len(RemoteCalls) : RemoteCalls[k].vendor # RemoteCalls[i].vendor

\* C6 as stated: vendors are processed in the order of their first
\* appearance in the input rows, and the lines of one vendor in the order in
\* which their groups first appear in the input rows.
C6_InputOrder ==
    pc = "done" =>
        /\ Map(VendorOfCall, PartnerCalls) = FirstSeen(VendorOfRow, CompleteRows, {})
        /\ \A v \in GroupVendors :
            Map(LineKeyOfGroup, GroupOf(df_grouped, v))
              = FirstSeen(LineKeyOfRow,
                          SelectSeq(CompleteRows, LAMBDA r : r.vendor_name = v), {})
        /\ VendorCallsContiguous

\* ascending order of line keys (product name, unit price, discount)
LineKeyBefore(a, b) ==
    \/ SeqLess(a[1], b[1])
    \/ a[1] = b[1] /\ a[2] < b[2]
    \/ a[1] = b[1] /\ a[2] = b[2] /\ a[3] < b[3]

\* C6 amended: vendors are processed in ascending order of vendor name and
\* the lines of one vendor are looked up, and placed in its document, in
\* ascending order of (product name, unit price, discount); all calls of one
\* vendor complete before the first call of the next vendor.
C6_SortedOrder ==
    /\ \A i, j \in 1..Len(PartnerCalls) :
        i < j => PartnerCalls[i].vendor < PartnerCalls[j].vendor
    /\ VendorCallsContiguous
    /\ \A v \in VendorNames :
        LET lookups == CallsFor("search_product", v)
            group == GroupOf(df_grouped, v)
        IN  /\ \A i \in 1..Len(lookups) : lookups[i].gi = i
            /\ \A i, j \in 1..Len(group) :
                i < j => LineKeyBefore(LineKeyOfGroup(group[i]), LineKeyOfGroup(group[j]))
            /\ \A c \in {CallsFor("create", v)[i] : i \in 1..Len(CallsFor("create", v))} :
                c.lines = ResolvedLines(v)

C6_Witness ==
    /\ pc = "done"
    /\ Len(file.rows) = 2
    /\ file.rows[1].vendor_name = 2
    /\ file.rows[2].vendor_name = 1
    /\ Map(VendorOfCall, PartnerCalls) = <<1, 2>>
    /\ Len(CreatedCalls) = 2

\* the group behind the j-th line of a create call
GroupOfLine(c, j) == GroupOf(df_grouped, c.vendor)[ResolvedCalls(c.vendor)[j].gi]

\* C9: every line of a create call is posted at unit_price * (1 - discount/100)
\* when the group's discount is above 0 and at unit_price unchanged otherwise
\* (prices in hundredths: 100 at 10% is 9000, 100 at 0% is 10000).
C9_EffectivePrice ==
    \A i \in 1..Len(calls) :
        calls[i].op = "create" =>
            /\ Len(calls[i].lines) = Len(ResolvedCalls(calls[i].vendor))
            /\ \A j \in 1..Len(calls[i].lines) :
                LET g == GroupOfLine(calls[i], j)
                    line == calls[i].lines[j]
                IN  /\ g.Discount > 0 =>
                          line.price_unit = g.CostPrice * (100 - g.Discount)
                    /\ ~(g.Discount > 0) => line.price_unit = g.CostPrice * 100
                    /\ (g.CostPrice = 100 /\ g.Discount = 10) => line.price_unit = 9000
                    /\ (g.CostPrice = 100 /\ g.Discount = 0) => line.price_unit = 10000

C9_Witness ==
    \E i \in 1..Len(calls) :
        /\ calls[i].op = "create"
        /\ calls[i].res = "created"
        /\ Len(calls[i].lines) = 2
        /\ \E j, k \in 1..2 :
            /\ calls[i].lines[j].discount = 10 /\ calls[i].lines[j].price_unit = 9000
            /\ calls[i].lines[k].discount = 0 /\ calls[i].lines[k].price_unit = 10000

\* the columns in the order the claim lists them
ClaimedColumns ==
    <<"vendor_name", "product_name", "unit_price", "quantity", "label", "discount">>

LacksColumn == \E i \in 1..Len(ClaimedColumns) : ClaimedColumns[i] \notin file.columns

FirstAbsentColumn ==
    ClaimedColumns[CHOOSE i \in 1..Len(ClaimedColumns) :
        /\ ClaimedColumns[i] \notin file.columns
        /\ \A j \in 1..(i - 1) : ClaimedColumns[j] \in file.columns]

\* C10: a file that lacks a required column makes the run fail with a
\* missing-column error naming the first absent column, before any remote
\* call and without any result message.
C10_MissingColumnBeforeRemote ==
    LacksColumn =>
        /\ calls = <<>>
        /\ results = <<>>
        /\ shown = <<>>
        /\ remoteDocs = <<>>
        /\ pc \in {"read", "failed"}
        /\ pc = "failed" => error = MissingColumn(FirstAbsentColumn)

C10_Witness ==
    /\ pc = "failed"
    /\ "unit_price" \notin file.columns
    /\ "discount" \notin file.columns
    /\ "vendor_name" \in file.columns
    /\ "product_name" \in file.columns
    /\ file.rows # <<>>
    /\ error = MissingColumn("unit_price")

\* ------------------------------------------------ the aggregation by itself
\* rows for the aggregation alone: any key cell but the product may be missing
AggRows ==
    [vendor_name : {NaN, 1, 2}, product_name : {<<1>>},
     unit_price : {100, 200}, quantity : {1, 2},
     label : {NaN, 7, 8}, discount : {NaN, 0}]

InitAgg ==
    /\ file \in {[columns |-> AllColumns, rows |-> rs] : rs \in SeqsUpTo(AggRows, MaxAggRows)}
    /\ pc = "agg"
    /\ uid = 0
    /\ df_grouped = <<>>
    /\ vendors = <<>>
    /\ vi = 0
    /\ vendor_id = 0
    /\ li = 0
    /\ line_vals = <<>>
    /\ results = <<>>
    /\ calls = <<>>
    /\ remoteDocs = <<>>
    /\ shown = <<>>
    /\ error = NoError
    /\ inventory_file = NoFile
    /\ odoo_file = NoFile
    /\ final_df = <<>>
    /\ odoo_connected = FALSE
    /\ odoo_config = NoConfig
    /\ uploaded_file = FALSE
    /\ clicks = <<>>

\* the groupby/agg applied to the rows of the file
Aggregate ==
    /\ pc = "agg"
    /\ df_grouped' = GroupRows(file.rows)
    /\ pc' = "aggregated"
    /\ UNCHANGED <<odoo_connected, odoo_config, uploaded_file, clicks,
                   inventory_file, odoo_file, final_df, file, uid, vendors, vi, vendor_id, li, line_vals, results, calls,
                   remoteDocs, shown, error>>

SpecAgg == InitAgg /\ [][Aggregate]_vars

\* the rows with key k, in input order
RowsWithKey(k) == SelectSeq(file.rows, LAMBDA r : KeyOf(r) = k)

RECURSIVE SumOf(_)
SumOf(rows) == IF rows = <<>> THEN 0 ELSE Head(rows).quantity + SumOf(Tail(rows))

LabelOf(r) == r.label
PresentLabels(rows) == Map(LabelOf, SelectSeq(rows, LAMBDA r : r.label # NaN))

GroupsWithKey(k) ==
    {i \in 1..Len(df_grouped) :
        <<df_grouped[i].Vendor, df_grouped[i].Product, df_grouped[i].CostPrice,
          df_grouped[i].Discount>> = k}

\* what C7 states of one key k that appears in the input
TrueSum(k) ==
    /\ Cardinality(GroupsWithKey(k)) = 1
    /\ \A i \in GroupsWithKey(k) :
        /\ df_grouped[i].Quantity = SumOf(RowsWithKey(k))
        /\ df_grouped[i].LotNumber = PresentLabels(RowsWithKey(k))

InputKeys == {KeyOf(file.rows[i]) : i \in 1..Len(file.rows)}

\* C7: every key (vendor, product, price, discount) that appears in the
\* input has exactly one aggregated group, whose quantity is the sum of the
\* key's quantities and whose label is the join of the key's non-missing
\* labels in input order; rows share a group exactly when their keys are equal.
C7_TrueSum ==
    pc = "aggregated" =>
        /\ \A k \in InputKeys : TrueSum(k)
        /\ Len(df_grouped) = Cardinality(InputKeys)

\* the same, of the keys that have no missing cell (what the code does)
AggregationOfCompleteKeys ==
    pc = "aggregated" =>
        /\ \A k \in InputKeys : KeyComplete(k) => TrueSum(k)
        /\ \A k \in InputKeys : ~KeyComplete(k) => GroupsWithKey(k) = {}
        /\ Len(df_grouped) = Cardinality({k \in InputKeys : KeyComplete(k)})

\* ---------------------------------------------------------- the merge step
\* str(): the text of a value
Str(x) == <<"str", x>>

\* the literal product name of the PO rows, "LOT SAREES"
LOT_SAREES == <<3, 0, 4>>

\* fillna(0)
FillNa(x) == IF x = NaN THEN 0 ELSE x

\* pd.to_numeric(errors='coerce')
ToNumeric(x) == IF x = Unparseable THEN NaN ELSE x

\* process_single_file(file, 'inventory') on one row
NormalizeInventory(r) ==
    [vendor_name |-> r.vendor, product_name |-> r.product_name,
     unit_price |-> r.cost_price, label |-> Str(r.lot), quantity |-> 1,
     discount |-> FillNa(r.discount), source |-> "inventory"]

\* process_single_file(file, 'odoo') on one row
NormalizeOdoo(r) ==
    [vendor_name |-> r.vendor_name, product_name |-> LOT_SAREES,
     unit_price |-> r.Unit_Price, label |-> Str(r.barcode), quantity |-> 1,
     discount |-> 0, source |-> "odoo"]

RECURSIVE DropDuplicates(_, _)
DropDuplicates(rows, seen) ==
    IF rows = <<>> THEN <<>>
    ELSE IF Head(rows) \in seen THEN DropDuplicates(Tail(rows), seen)
    ELSE <<Head(rows)>> \o DropDuplicates(Tail(rows), seen \cup {Head(rows)})

concat_drop_duplicates(a, b) == DropDuplicates(a \o b, {})

\* pd.concat([a, b], ignore_index=True)
concat(a, b) == a \o b

\* final_df['discount'] = pd.to_numeric(..., errors='coerce').fillna(0)
NumericDiscount(r) == [r EXCEPT !.discount = FillNa(ToNumeric(r.discount))]

InventorySourceRows ==
    [lot : {1, 2}, product_name : {<<1>>}, vendor : {1}, cost_price : {100},
     discount : {NaN, 10, Unparseable}]

OdooSourceRows ==
    [barcode : {5, 6}, product_name : {<<2>>}, product_ref : {3},
     vendor_name : {2}, Unit_Price : {200}]

\* a source given to process_files: none, one whose sheet or columns are
\* missing, or a readable one with its rows
SourceFiles(rowSet) ==
    {NoFile, [supplied |-> TRUE, readable |-> FALSE, rows |-> <<>>]}
    \cup {[supplied |-> TRUE, readable |-> TRUE, rows |-> rs] :
            rs \in SeqsUpTo(rowSet, MaxSourceRows)}

InitMerge ==
    /\ odoo_connected = FALSE
    /\ odoo_config = NoConfig
    /\ uploaded_file = FALSE
    /\ clicks = <<>>
    /\ inventory_file \in SourceFiles(InventorySourceRows)
    /\ odoo_file \in SourceFiles(OdooSourceRows)
    /\ final_df = <<>>
    /\ pc = "merge"
    /\ error = NoError
    /\ file = [columns |-> {}, rows |-> <<>>]
    /\ uid = 0
    /\ df_grouped = <<>>
    /\ vendors = <<>>
    /\ vi = 0
    /\ vendor_id = 0
    /\ li = 0
    /\ line_vals = <<>>
    /\ results = <<>>
    /\ calls = <<>>
    /\ remoteDocs = <<>>
    /\ shown = <<>>

FileError(which) == [kind |-> "file_error", column |-> which]
NoValidFiles == [kind |-> "no_valid_files", column |-> ""]

\* process_files(inventory_file, odoo_file)
ProcessFiles ==
    /\ pc = "merge"
    /\ LET inventory_final ==
               IF inventory_file.supplied
               THEN Map(NormalizeInventory, inventory_file.rows) ELSE <<>>
           odoo_final ==
               IF odoo_file.supplied THEN Map(NormalizeOdoo, odoo_file.rows) ELSE <<>>
           combined ==
               IF inventory_final # <<>> /\ odoo_final # <<>>
               THEN concat(inventory_final, odoo_final)
               ELSE IF inventory_final # <<>> THEN inventory_final
               ELSE odoo_final
       IN  IF inventory_file.supplied /\ ~inventory_file.readable
           THEN /\ pc' = "merge_failed"
                /\ error' = FileError("inventory")
                /\ UNCHANGED final_df
           ELSE IF odoo_file.supplied /\ ~odoo_file.readable
           THEN /\ pc' = "merge_failed"
                /\ error' = FileError("odoo")
                /\ UNCHANGED final_df
           ELSE IF inventory_final = <<>> /\ odoo_final = <<>>
           THEN /\ pc' = "merge_failed"
                /\ error' = NoValidFiles
                /\ UNCHANGED final_df
           ELSE /\ pc' = "merged"
                /\ final_df' = Map(NumericDiscount, combined)
                /\ UNCHANGED error
    /\ UNCHANGED <<odoo_connected, odoo_config, uploaded_file, clicks,
                   inventory_file, odoo_file, file, uid, df_grouped, vendors, vi,
                   vendor_id, li, line_vals, results, calls, remoteDocs, shown>>

SpecMerge == InitMerge /\ [][ProcessFiles]_vars

\* the sources normalise without error, at least one being supplied
SourcesNormalise ==
    /\ inventory_file.supplied \/ odoo_file.supplied
    /\ inventory_file.supplied => inventory_file.readable
    /\ odoo_file.supplied => odoo_file.readable

\* the result is the n inventory rows in order, then the m PO rows in order
AllRowsInOrder ==
    LET n == Len(inventory_file.rows)
        m == Len(odoo_file.rows)
    IN  /\ Len(final_df) = n + m
        /\ \A i \in 1..n :
            /\ final_df[i].source = "inventory"
            /\ final_df[i].label = Str(inventory_file.rows[i].lot)
            /\ final_df[i].vendor_name = inventory_file.rows[i].vendor
            /\ final_df[i].unit_price = inventory_file.rows[i].cost_price
            /\ final_df[i].quantity = 1
        /\ \A j \in 1..m :
            /\ final_df[n + j].source = "odoo"
            /\ final_df[n + j].label = Str(odoo_file.rows[j].barcode)
            /\ final_df[n + j].vendor_name = odoo_file.rows[j].vendor_name
            /\ final_df[n + j].unit_price = odoo_file.rows[j].Unit_Price
            /\ final_df[n + j].quantity = 1

\* C8 as stated: whenever a source is supplied and the sources normalise,
\* with n, m >= 0 rows, the result is the n + m rows in order; the no-input
\* error is raised only when neither source is supplied.
C8_AllRowsWheneverSupplied ==
    pc # "merge" =>
        /\ SourcesNormalise => (pc = "merged" /\ AllRowsInOrder)
        /\ error = NoValidFiles => (~inventory_file.supplied /\ ~odoo_file.supplied)

\* C8 amended: when the supplied sources normalise and hold at least one
\* row between them, the result is the n inventory rows in order followed by
\* the m PO rows in order, none dropped or merged; the no-input error is
\* raised exactly when no supplied source is unreadable and the sources hold
\* no row at all, which includes sources that are supplied but empty.
C8_AllRowsWhenAnyRow ==
    pc # "merge" =>
        /\ (SourcesNormalise /\ Len(inventory_file.rows) + Len(odoo_file.rows) >= 1)
              => (pc = "merged" /\ AllRowsInOrder)
        /\ error = NoValidFiles <=>
              /\ inventory_file.supplied => inventory_file.readable
              /\ odoo_file.supplied => odoo_file.readable
              /\ Len(inventory_file.rows) + Len(odoo_file.rows) = 0

C8_Witness ==
    /\ pc = "merged"
    /\ Len(inventory_file.rows) = 2
    /\ inventory_file.rows[1] = inventory_file.rows[2]
    /\ Len(odoo_file.rows) = 2
    /\ odoo_file.rows[1] = odoo_file.rows[2]
    /\ Len(final_df) = 4

\* ------------------------------------------------- rows and posted lines
RECURSIVE SumOfGroups(_)
SumOfGroups(grouped) ==
    IF grouped = <<>> THEN 0 ELSE Head(grouped).Quantity + SumOfGroups(Tail(grouped))

\* the groups a row belongs to: those that have the row's key
GroupsOfRow(r) == GroupsWithKey(KeyOf(r))

\* C12: no row is lost in aggregation: every row of a file that passes the
\* column check belongs to exactly one aggregated group, so the group
\* quantities add up to the row quantities, and every vendor named in a row
\* is looked up in the posting loop.
C12_NoRowLost ==
    /\ pc \in {"vendor", "line", "done"} =>
        /\ \A i \in 1..Len(file.rows) : Cardinality(GroupsOfRow(file.rows[i])) = 1
        /\ SumOfGroups(df_grouped) = SumOf(file.rows)
    /\ pc = "done" =>
        \A i \in 1..Len(file.rows) :
            Len(CallsFor("search_partner", file.rows[i].vendor_name)) >= 1

\* the input rows behind group g
RowsOfGroup(g) == RowsWithKey(<<g.Vendor, g.Product, g.CostPrice, g.Discount>>)

NoBlankAtEnds(s) == s = <<>> \/ (s[1] # 0 /\ s[Len(s)] # 0)

\* C13: every line of every create call carries the group's discount in its
\* own discount field next to a price_unit already reduced by that discount:
\* (p * (1 - d/100), d) for d > 0 and (p, 0) for d = 0; its quantity is the
\* group's summed quantity and its description holds the stripped product
\* name, the joined labels and d.
C13_DiscountPostedTwice ==
    \A i \in 1..Len(calls) :
        calls[i].op = "create" =>
            \A j \in 1..Len(calls[i].lines) :
                LET g == GroupOfLine(calls[i], j)
                    line == calls[i].lines[j]
                    p == g.CostPrice
                    d == g.Discount
                IN  /\ d > 0 => (line.price_unit = p * (100 - d) /\ line.discount = d)
                    /\ d = 0 => (line.price_unit = p * 100 /\ line.discount = 0)
                    /\ d >= 0
                    /\ line.quantity = SumOf(RowsOfGroup(g))
                    /\ line.name[1] = Strip(g.Product)
                    /\ NoBlankAtEnds(line.name[1])
                    /\ line.name[2] = PresentLabels(RowsOfGroup(g))
                    /\ line.name[3] = d

C13_Witness ==
    \E i \in 1..Len(calls) :
        /\ calls[i].op = "create"
        /\ calls[i].res = "created"
        /\ \E j \in 1..Len(calls[i].lines) :
            LET line == calls[i].lines[j]
            IN  /\ line.discount = 10
                /\ line.price_unit = 9000
                /\ line.quantity = 2
                /\ line.name = <<(<<2>>), <<7, 7>>, 10>>
                /\ GroupOfLine(calls[i], j).Product = <<2, 0>>

\* ------------------------------------------------------------ the session
\* st.session_state.get('odoo_connected', False) after a failed test
ConnectedAfterFailureKept == odoo_connected

ConnectedAfterFailure == FALSE

\* one button click, with the session state it found
Click(action, env, outcome, used) ==
    [action |-> action, env |-> env, outcome |-> outcome, used |-> used,
     connected |-> odoo_connected, cached |-> odoo_config, uploaded |-> uploaded_file]

InitSession ==
    /\ odoo_connected = FALSE
    /\ odoo_config = NoConfig
    /\ uploaded_file = FALSE
    /\ clicks = <<>>
    /\ pc = "idle"
    /\ error = NoError
    /\ file = [columns |-> {}, rows |-> <<>>]
    /\ uid = 0
    /\ df_grouped = <<>>
    /\ vendors = <<>>
    /\ vi = 0
    /\ vendor_id = 0
    /\ li = 0
    /\ line_vals = <<>>
    /\ results = <<>>
    /\ calls = <<>>
    /\ remoteDocs = <<>>
    /\ shown = <<>>
    /\ inventory_file = NoFile
    /\ odoo_file = NoFile
    /\ final_df = <<>>

runVars == <<inventory_file, odoo_file, final_df, file, pc, uid, df_grouped, vendors, vi,
             vendor_id, li, line_vals, results, calls, remoteDocs, shown, error>>

\* the "Connect to Odoo" button: get_odoo_config, then test_odoo_connection
ConnectToOdoo ==
    /\ Len(clicks) < MaxClicks
    /\ \E config \in EnvConfigs :
        IF ~Complete(config)
        THEN /\ clicks' = Append(clicks, Click("connect", config, "incomplete", NoConfig))
             /\ UNCHANGED <<odoo_connected, odoo_config>>
        ELSE \E success \in BOOLEAN :
                /\ clicks' = Append(clicks,
                       Click("connect", config, IF success THEN "ok" ELSE "failed", NoConfig))
                /\ IF success
                   THEN /\ odoo_connected' = TRUE
                        /\ odoo_config' = config
                   ELSE /\ odoo_connected' = ConnectedAfterFailure
                        /\ UNCHANGED odoo_config
    /\ UNCHANGED uploaded_file
    /\ UNCHANGED runVars

\* the file uploader of the integration tab: a file is put in or taken out
ChangeUpload ==
    /\ Len(clicks) < MaxClicks
    /\ uploaded_file' = ~uploaded_file
    /\ clicks' = Append(clicks, Click("upload", NoConfig, "changed", NoConfig))
    /\ UNCHANGED <<odoo_connected, odoo_config>>
    /\ UNCHANGED runVars

\* the "Process Odoo Integration" button; the run itself is the posting run
ProcessOdooIntegration ==
    /\ Len(clicks) < MaxClicks
    /\ clicks' = Append(clicks,
           IF ~odoo_connected THEN Click("process", NoConfig, "not_connected", NoConfig)
           ELSE IF ~uploaded_file THEN Click("process", NoConfig, "no_file", NoConfig)
           ELSE Click("process", NoConfig, "run", odoo_config))
    /\ UNCHANGED <<odoo_connected, odoo_config, uploaded_file>>
    /\ UNCHANGED runVars

NextSession ==
    \/ ConnectToOdoo
    \/ ChangeUpload
    \/ ProcessOdooIntegration

SpecSession == InitSession /\ [][NextSession]_vars

\* the session state right after click i
ConnectedAfter(i) == IF i < Len(clicks) THEN clicks[i + 1].connected ELSE odoo_connected
CachedAfter(i) == IF i < Len(clicks) THEN clicks[i + 1].cached ELSE odoo_config

\* the connection tests performed among the first n clicks
TestsBefore(n) == {i \in 1..n : clicks[i].outcome \in {"ok", "failed"}}
OkTestsBefore(n) == {i \in 1..n : clicks[i].outcome = "ok"}

Last(S) == CHOOSE i \in S : \A j \in S : j <= i

\* C11: a posting run starts only with the connected flag true and a file
\* uploaded; the flag is true only if the most recent connection test
\* performed succeeded (an attempt with incomplete configuration changes
\* neither flag nor cached configuration, a failed test clears the flag);
\* a run uses the configuration cached by the most recent successful test.
C11_SessionGuardsRun ==
    /\ \A i \in 1..Len(clicks) :
        clicks[i].outcome = "run" =>
            /\ clicks[i].connected
            /\ clicks[i].uploaded
            /\ OkTestsBefore(i - 1) # {}
            /\ clicks[i].used = clicks[Last(OkTestsBefore(i - 1))].env
    /\ odoo_connected =>
        /\ TestsBefore(Len(clicks)) # {}
        /\ clicks[Last(TestsBefore(Len(clicks)))].outcome = "ok"
    /\ \A i \in 1..Len(clicks) :
        /\ clicks[i].outcome = "incomplete" =>
            /\ ConnectedAfter(i) = clicks[i].connected
            /\ CachedAfter(i) = clicks[i].cached
        /\ clicks[i].outcome = "failed" => ~ConnectedAfter(i)

C11_Witness ==
    /\ Len(clicks) = 5
    /\ clicks[1].outcome = "ok"
    /\ clicks[2].outcome = "incomplete"
    /\ clicks[3].outcome = "ok"
    /\ clicks[3].env # clicks[1].env
    /\ clicks[4].action = "upload"
    /\ clicks[5].outcome = "run"
    /\ clicks[5].used = clicks[3].env

====
